---- MODULE Spec2Model ----
(***************************************************************************)
(* The controller memory-address access layer of the hyperbaric-chamber    *)
(* backend: S7_200 (src/plc/plc.py) and the lazily created session of      *)
(* get_plc (src/api/shared.py).                                            *)
(*                                                                         *)
(* An address is a Python str, carried here as a sequence of one-character *)
(* strings, so that upper(), startswith(), split() and int() are computed  *)
(* as Python computes them.  A raised exception is carried as the name of  *)
(* its class in an "err" field; "ok" means nothing was raised.             *)
(***************************************************************************)
EXTENDS Integers, Sequences, FiniteSets, TLC

\* The fields of the records below, in the order every record lists them.
RecordFields ==
    [addr |-> 0, area |-> 0, b |-> 0, bit |-> 0, data |-> 0, db |-> 0,
     db_number |-> 0, e |-> 0, err |-> 0, fn |-> 0, form |-> 0, hi |-> 0, i |-> 0,
     kind |-> 0, length |-> 0, lo |-> 0, m |-> 0, off |-> 0, op |-> 0,
     out_type |-> 0, result |-> 0, returnByte |-> 0, s |-> 0, start |-> 0,
     t |-> 0, val |-> 0, value |-> 0]

(***************************************************************************)
(* Python str and int() primitives used by plc.py                          *)
(***************************************************************************)
LowerLetters ==
    <<"a","b","c","d","e","f","g","h","i","j","k","l","m",
      "n","o","p","q","r","s","t","u","v","w","x","y","z">>

UpperLetters ==
    <<"A","B","C","D","E","F","G","H","I","J","K","L","M",
      "N","O","P","Q","R","S","T","U","V","W","X","Y","Z">>

DigitChars == <<"0","1","2","3","4","5","6","7","8","9">>

\* str.upper(), one character
upper_char(c) ==
    IF \E i \in 1..26 : LowerLetters[i] = c
    THEN UpperLetters[CHOOSE i \in 1..26 : LowerLetters[i] = c]
    ELSE c

\* str.lower(), one character
lower_char(c) ==
    IF \E i \in 1..26 : UpperLetters[i] = c
    THEN LowerLetters[CHOOSE i \in 1..26 : UpperLetters[i] = c]
    ELSE c

\* mem.upper()
upper(s) == [i \in 1..Len(s) |-> upper_char(s[i])]

\* mem.lower()
lower(s) == [i \in 1..Len(s) |-> lower_char(s[i])]

\* mem.startswith(p)
startswith(s, p) == Len(s) >= Len(p) /\ SubSeq(s, 1, Len(p)) = p

\* mem[n:]
from(s, n) == SubSeq(s, n + 1, Len(s))

\* "." in mem
contains(s, c) == \E i \in 1..Len(s) : s[i] = c

\* mem.split("."): the list of the parts between the separators
RECURSIVE split(_, _)
split_value(s, c) ==
    IF ~contains(s, c) THEN <<s>>
    ELSE LET k == CHOOSE i \in 1..Len(s) :
                      s[i] = c /\ \A j \in 1..(i - 1) : s[j] # c
         IN  <<SubSeq(s, 1, k - 1)>> \o split(from(s, k), c)

\* (the string is evaluated once and split as a value)
split(s, c) == CHOOSE parts \in {split_value(v, c) : v \in {s}} : TRUE

is_digit(c) == \E i \in 1..10 : DigitChars[i] = c

digit_value(c) == (CHOOSE i \in 1..10 : DigitChars[i] = c) - 1

RECURSIVE digits_value(_)
digits_value(s) ==
    IF Len(s) = 0 THEN 0
    ELSE 10 * digits_value(SubSeq(s, 1, Len(s) - 1)) + digit_value(s[Len(s)])

\* int(s) on a str: an optional sign, then one or more decimal digits;
\* anything else raises ValueError.
py_int_value(s) ==
    LET signed == Len(s) > 0 /\ s[1] \in {"+", "-"}
        body   == IF signed THEN from(s, 1) ELSE s
    IN  IF Len(body) = 0 \/ \E i \in 1..Len(body) : ~is_digit(body[i])
        THEN [err |-> "ValueError", val |-> 0]
        ELSE [err |-> "ok",
              val |-> IF signed /\ s[1] = "-" THEN 0 - digits_value(body)
                      ELSE digits_value(body)]

\* (the string is evaluated once and converted as a value)
py_int(s) == CHOOSE r \in {py_int_value(v) : v \in {s}} : TRUE

(***************************************************************************)
(* S7_200._translate_alias and S7_200._resolve_area                        *)
(***************************************************************************)
\* A _translate_alias that writes the marker shorthand as MX<byte>.<bit>.
translate_alias_to_mx(mem0) ==
    LET mem == upper(mem0) IN
    IF startswith(mem, <<"M">>) /\ contains(mem, ".")
    THEN LET parts == split(from(mem, 1), ".") IN
         IF Len(parts) # 2 THEN [err |-> "ValueError", s |-> mem]
         ELSE [err |-> "ok", s |-> <<"M","X">> \o parts[1] \o <<".">> \o parts[2]]
    ELSE IF startswith(mem, <<"V","D">>)
    THEN [err |-> "ok", s |-> <<"D","B","1",".","D","B","D">> \o from(mem, 2)]
    ELSE IF startswith(mem, <<"V","W">>)
    THEN [err |-> "ok", s |-> <<"D","B","1",".","D","B","W">> \o from(mem, 2)]
    ELSE [err |-> "ok", s |-> mem]

\* A _translate_alias that tests the prefixes on the address as given.
translate_alias_case_sensitive(mem0) ==
    IF startswith(mem0, <<"M">>) /\ contains(mem0, ".")
    THEN LET parts == split(from(mem0, 1), ".") IN
         IF Len(parts) # 2 THEN [err |-> "ValueError", s |-> upper(mem0)]
         ELSE [err |-> "ok", s |-> <<"V","X">> \o parts[1] \o <<".">> \o parts[2]]
    ELSE IF startswith(mem0, <<"V","D">>)
    THEN [err |-> "ok", s |-> <<"D","B","1",".","D","B","D">> \o from(mem0, 2)]
    ELSE IF startswith(mem0, <<"V","W">>)
    THEN [err |-> "ok", s |-> <<"D","B","1",".","D","B","W">> \o from(mem0, 2)]
    ELSE [err |-> "ok", s |-> upper(mem0)]

\* The unpacking "byte, bit = mem[1:].split('.')" raises ValueError unless
\* the split has exactly two parts.
translate_alias(mem0) ==
    LET mem == upper(mem0) IN
    IF startswith(mem, <<"M">>) /\ contains(mem, ".")
    THEN LET parts == split(from(mem, 1), ".") IN
         IF Len(parts) # 2 THEN [err |-> "ValueError", s |-> mem]
         ELSE [err |-> "ok", s |-> <<"V","X">> \o parts[1] \o <<".">> \o parts[2]]
    ELSE IF startswith(mem, <<"V","D">>)
    THEN [err |-> "ok", s |-> <<"D","B","1",".","D","B","D">> \o from(mem, 2)]
    ELSE IF startswith(mem, <<"V","W">>)
    THEN [err |-> "ok", s |-> <<"D","B","1",".","D","B","W">> \o from(mem, 2)]
    ELSE [err |-> "ok", s |-> mem]

\* A _resolve_area that compares the address as given, without lower-casing.
resolve_area_case_sensitive(mem) ==
    IF startswith(mem, <<"d","b">>) THEN [area |-> "DB", err |-> "ok"]
    ELSE IF startswith(mem, <<"a","i">>) \/ startswith(mem, <<"i","w">>)
    THEN [area |-> "PE", err |-> "ok"]
    ELSE IF startswith(mem, <<"a","q">>) \/ startswith(mem, <<"q","w">>)
    THEN [area |-> "PA", err |-> "ok"]
    ELSE IF startswith(mem, <<"q">>) THEN [area |-> "PA", err |-> "ok"]
    ELSE IF startswith(mem, <<"i">>) THEN [area |-> "PE", err |-> "ok"]
    ELSE IF startswith(mem, <<"v">>) \/ startswith(mem, <<"m">>)
    THEN [area |-> "MK", err |-> "ok"]
    ELSE [area |-> "MK", err |-> "ValueError"]

\* A _resolve_area that takes an address of no known prefix for a marker.
resolve_area_defaults_to_marker(mem) == [area |-> "MK", err |-> "ok"]

resolve_area(mem) ==
    LET mem_lower == lower(mem) IN
    IF startswith(mem_lower, <<"d","b">>) THEN [area |-> "DB", err |-> "ok"]
    ELSE IF startswith(mem_lower, <<"a","i">>) \/ startswith(mem_lower, <<"i","w">>)
    THEN [area |-> "PE", err |-> "ok"]
    ELSE IF startswith(mem_lower, <<"a","q">>) \/ startswith(mem_lower, <<"q","w">>)
    THEN [area |-> "PA", err |-> "ok"]
    ELSE IF startswith(mem_lower, <<"q">>) THEN [area |-> "PA", err |-> "ok"]
    ELSE IF startswith(mem_lower, <<"i">>) THEN [area |-> "PE", err |-> "ok"]
    ELSE IF startswith(mem_lower, <<"v">>) \/ startswith(mem_lower, <<"m">>)
    THEN [area |-> "MK", err |-> "ok"]
    ELSE [area |-> "MK", err |-> "ValueError"]

(***************************************************************************)
(* Address resolution of S7_200.getMem (plc.py lines 115-174)              *)
(***************************************************************************)
Params(area, db_number, start, length, out_type, bit) ==
    [area |-> area, bit |-> bit, db_number |-> db_number, err |-> "ok", length |-> length, out_type |-> out_type, start |-> start]

Raised(e) ==
    [area |-> "MK", bit |-> 0, db_number |-> 0, err |-> e, length |-> 1, out_type |-> "None", start |-> 0]

\* The five word-style prefixes of line 167.
getMem_word_alias(mem) ==
    \/ startswith(mem, <<"a","i","w">>)
    \/ startswith(mem, <<"a","q","w">>)
    \/ startswith(mem, <<"i","w">>)
    \/ startswith(mem, <<"q","w">>)
    \/ startswith(mem, <<"v","w">>)

\* The "db" branch, lines 122-143.  Every int() and every [1] may raise.
getMem_resolve_db(mem) ==
    LET parts == split(mem, ".")
        dbn   == py_int(from(parts[1], 2))
    IN  IF dbn.err # "ok" THEN Raised(dbn.err)
        ELSE IF Len(parts) < 2 THEN Raised("IndexError")
        ELSE
        LET sub == parts[2]
            num == py_int(from(sub, 3))
        IN  IF startswith(sub, <<"d","b","x">>)
            THEN LET st == py_int(split(from(sub, 3), ".")[1])
                     sp == split(sub, ".")
                 IN  IF st.err # "ok" THEN Raised(st.err)
                     ELSE IF Len(sp) < 2 THEN Raised("IndexError")
                     ELSE IF py_int(sp[2]).err # "ok" THEN Raised("ValueError")
                     ELSE Params("DB", dbn.val, st.val, 1, "BOOL", py_int(sp[2]).val)
            ELSE IF startswith(sub, <<"d","b","b">>)
            THEN IF num.err # "ok" THEN Raised(num.err)
                 ELSE Params("DB", dbn.val, num.val, 1, "INT", 0)
            ELSE IF startswith(sub, <<"d","b","w">>)
            THEN IF num.err # "ok" THEN Raised(num.err)
                 ELSE Params("DB", dbn.val, num.val, 2, "INT", 0)
            ELSE IF startswith(sub, <<"d","b","d">>)
            THEN IF num.err # "ok" THEN Raised(num.err)
                 ELSE Params("DB", dbn.val, num.val, 4, "REAL", 0)
            ELSE Params("DB", dbn.val, 0, 1, "None", 0)

\* The other branch, lines 144-174.
getMem_resolve_other(mem) ==
    LET ar == resolve_area(mem) IN
    IF ar.err # "ok" THEN Raised(ar.err)
    ELSE IF Len(mem) < 2 THEN Raised("IndexError")
    ELSE
    LET num2 == py_int(from(mem, 2))
        num3 == py_int(from(mem, 3))
    IN  IF mem[2] = "x"
        THEN LET st == py_int(split(from(mem, 2), ".")[1])
                 sp == split(mem, ".")
             IN  IF st.err # "ok" THEN Raised(st.err)
                 ELSE IF Len(sp) < 2 THEN Raised("IndexError")
                 ELSE IF py_int(sp[2]).err # "ok" THEN Raised("ValueError")
                 ELSE Params(ar.area, 0, st.val, 1, "BOOL", py_int(sp[2]).val)
        ELSE IF mem[2] = "b"
        THEN IF num2.err # "ok" THEN Raised(num2.err)
             ELSE Params(ar.area, 0, num2.val, 1, "INT", 0)
        ELSE IF mem[2] = "w"
        THEN IF num2.err # "ok" THEN Raised(num2.err)
             ELSE Params(ar.area, 0, num2.val, 2, "INT", 0)
        ELSE IF mem[2] = "d"
        THEN IF num2.err # "ok" THEN Raised(num2.err)
             ELSE Params(ar.area, 0, num2.val, 4,
                         IF startswith(mem, <<"v","d">>) THEN "REAL" ELSE "DWORD", 0)
        ELSE IF getMem_word_alias(mem)
        THEN IF num3.err # "ok" THEN Raised(num3.err)
             ELSE Params(ar.area, 0, num3.val, 2, "INT", 0)
        ELSE IF startswith(mem, <<"v","d">>)
        THEN IF num2.err # "ok" THEN Raised(num2.err)
             ELSE Params(ar.area, 0, num2.val, 4, "REAL", 0)
        ELSE Params(ar.area, 0, 0, 1, "None", 0)

\* mem = self._translate_alias(mem).lower(), then one of the two branches.
getMem_resolve(mem0) ==
    LET t == translate_alias(mem0) IN
    IF t.err # "ok" THEN Raised(t.err)
    ELSE LET mem == lower(t.s) IN
         IF startswith(mem, <<"d","b">>) THEN getMem_resolve_db(mem)
         ELSE getMem_resolve_other(mem)


(***************************************************************************)
(* Python values and the snap7.util accessors plc.py calls.                *)
(*                                                                         *)
(* A Python int below 2^31 in magnitude is PyInt(i); an int in             *)
(* 2^31..2^32-1 is PyBig(hi, lo) = hi * 65536 + lo.  A float that float32  *)
(* represents is PyFloat(s, e, m): sign, biased exponent and 23-bit        *)
(* mantissa, that is (-1)^s * (2^23 + m) * 2^(e - 150) for 0 < e < 255.    *)
(* A buffer (bytearray) is a sequence of numbers in 0..255.                *)
(***************************************************************************)
PyBool(b) == [b |-> b, t |-> "bool"]

PyInt(i) == [i |-> i, t |-> "int"]

PyBig(hi, lo) == [hi |-> hi, lo |-> lo, t |-> "big"]

PyFloat(s, e, m) == [e |-> e, m |-> m, s |-> s, t |-> "float"]

PyNone == [t |-> "None"]

PyBytes(d) == [data |-> d, t |-> "bytes"]

Pow2(n) == 2 ^ n

\* int(value): bool -> 0 or 1, int -> itself, float -> truncated toward zero
\* (modelled for floats of magnitude below 2^24).
to_int(v) ==
    CASE v.t = "bool" -> PyInt(IF v.b THEN 1 ELSE 0)
      [] v.t = "int" -> v
      [] v.t = "big" -> v
      [] v.t = "float" /\ v.e < 127 -> PyInt(0)
      [] v.t = "float" /\ v.e >= 127 /\ v.e <= 150 ->
            LET mag == (Pow2(23) + v.m) \div Pow2(150 - v.e)
            IN  PyInt(IF v.s = 1 THEN 0 - mag ELSE mag)

\* The position of the highest set bit of a positive int.
RECURSIVE floor_log2(_)
floor_log2(n) == IF n < 2 THEN 0 ELSE 1 + floor_log2(n \div 2)

\* float(value) (modelled for ints of magnitude below 2^24, which float32
\* holds exactly).
to_float(v) ==
    CASE v.t = "float" -> v
      [] v.t = "bool" -> IF v.b THEN PyFloat(0, 127, 0) ELSE PyFloat(0, 0, 0)
      [] v.t = "int" /\ v.i = 0 -> PyFloat(0, 0, 0)
      [] v.t = "int" /\ v.i # 0 /\ v.i < Pow2(24) /\ v.i > 0 - Pow2(24) ->
            LET mag == IF v.i < 0 THEN 0 - v.i ELSE v.i
                k   == floor_log2(mag)
            IN  PyFloat(IF v.i < 0 THEN 1 ELSE 0, 127 + k,
                        (mag - Pow2(k)) * Pow2(23 - k))

\* get_bool(bytearray_, 0, bool_index): "1 << bool_index" raises ValueError
\* on a negative index; a bit index above 7 finds no bit of the byte set.
get_bool(data, bool_index) ==
    IF bool_index < 0 THEN [err |-> "ValueError", val |-> PyNone]
    ELSE IF Len(data) < 1 THEN [err |-> "IndexError", val |-> PyNone]
    ELSE [err |-> "ok",
          val |-> PyBool(bool_index <= 7
                         /\ (data[1] \div Pow2(bool_index)) % 2 = 1)]

\* A set_bool that stores the bit's mask, or 0, over the whole byte.
set_bool_whole_byte(data, bool_index, value) ==
    IF ~(value.t = "int" /\ value.i \in {0, 1}) \/ bool_index < 0 \/ bool_index > 7
    THEN [data |-> data, err |-> "TypeError"]
    ELSE [data |-> <<IF value.i = 1 THEN Pow2(bool_index) ELSE 0>> \o from(data, 1), err |-> "ok"]

\* set_bool(bytearray_, 0, bool_index, value): adds or subtracts
\* 1 << bool_index when the bit differs; a byte above 255 raises ValueError.
set_bool(data, bool_index, value) ==
    IF ~(value.t = "int" /\ value.i \in {0, 1})
    THEN [data |-> data, err |-> "TypeError"]
    ELSE
    LET cur == get_bool(data, bool_index) IN
    IF cur.err # "ok" THEN [data |-> data, err |-> cur.err]
    ELSE IF cur.val.b = (value.i = 1) THEN [data |-> data, err |-> "ok"]
    ELSE IF value.i = 1
    THEN IF bool_index > 7 \/ data[1] + Pow2(bool_index) > 255
         THEN [data |-> data, err |-> "ValueError"]
         ELSE [data |-> <<data[1] + Pow2(bool_index)>> \o from(data, 1), err |-> "ok"]
    ELSE [data |-> <<data[1] - Pow2(bool_index)>> \o from(data, 1), err |-> "ok"]

\* set_int(bytearray_, 0, _int): struct.pack('>h') of int(_int), stored by
\* the slice assignment bytearray_[0:2] = (hi, lo), which replaces what the
\* buffer holds at positions 0 and 1 and grows a one-byte buffer to two.
set_int(data, value) ==
    LET n == to_int(value) IN
    IF n.t = "big" \/ n.i < 0 - 32768 \/ n.i > 32767
    THEN [data |-> data, err |-> "struct.error"]
    ELSE LET u == IF n.i < 0 THEN n.i + 65536 ELSE n.i
         IN  [data |-> <<u \div 256, u % 256>> \o from(data, 2), err |-> "ok"]

\* get_int(bytearray_, 0): takes the slice [0:2] and indexes its element 1.
get_int(data) ==
    IF Len(data) < 2 THEN [err |-> "IndexError", val |-> PyNone]
    ELSE LET u == data[1] * 256 + data[2]
         IN  [err |-> "ok", val |-> PyInt(IF u >= 32768 THEN u - 65536 ELSE u)]

\* struct.pack('>f', x): the four big-endian bytes of the float32.
real_bytes(f) ==
    <<f.s * 128 + f.e \div 2, (f.e % 2) * 128 + f.m \div 65536,
      (f.m \div 256) % 256, f.m % 256>>

\* A set_real that packs a value that is an int as an unsigned 32-bit word.
set_real_by_value_type(data, value) ==
    IF Len(data) < 4 THEN [data |-> data, err |-> "IndexError"]
    ELSE IF value.t = "int"
    THEN [data |-> <<value.i \div Pow2(24), (value.i \div 65536) % 256,
                     (value.i \div 256) % 256, value.i % 256>>
                   \o from(data, 4), err |-> "ok"]
    ELSE [data |-> real_bytes(to_float(value)) \o from(data, 4), err |-> "ok"]

\* set_real(bytearray_, 0, real): stores the four bytes one index at a time.
set_real(data, value) ==
    IF Len(data) < 4 THEN [data |-> data, err |-> "IndexError"]
    ELSE [data |-> real_bytes(to_float(value)) \o from(data, 4), err |-> "ok"]

\* get_real(bytearray_, 0): struct.unpack('>f') of the slice [0:4].
get_real(data) ==
    IF Len(data) < 4 THEN [err |-> "struct.error", val |-> PyNone]
    ELSE [err |-> "ok",
          val |-> PyFloat(data[1] \div 128,
                          (data[1] % 128) * 2 + data[2] \div 128,
                          (data[2] % 128) * 65536 + data[3] * 256 + data[4])]

\* set_dword(bytearray_, 0, dword): struct.pack('>I') of int(dword), stored
\* one index at a time.
set_dword(data, value) ==
    LET n == to_int(value) IN
    IF n.t = "int" /\ n.i < 0 THEN [data |-> data, err |-> "struct.error"]
    ELSE IF Len(data) < 4 THEN [data |-> data, err |-> "IndexError"]
    ELSE LET hi == IF n.t = "big" THEN n.hi ELSE n.i \div 65536
             lo == IF n.t = "big" THEN n.lo ELSE n.i % 65536
         IN  [data |-> <<hi \div 256, hi % 256, lo \div 256, lo % 256>>
                       \o from(data, 4), err |-> "ok"]

\* get_dword(bytearray_, 0): struct.unpack('>I') of the slice [0:4].
get_dword(data) ==
    IF Len(data) < 4 THEN [err |-> "struct.error", val |-> PyNone]
    ELSE LET hi == data[1] * 256 + data[2]
             lo == data[3] * 256 + data[4]
         IN  [err |-> "ok",
              val |-> IF hi >= 32768 THEN PyBig(hi, lo) ELSE PyInt(hi * 65536 + lo)]

(***************************************************************************)
(* The decoding of S7_200.getMem (lines 182-202) and the parsing and       *)
(* encoding of S7_200.writeMem (lines 219-276)                             *)
(***************************************************************************)
\* What getMem returns from the buffer read_area returned.
getMem_decode(data, returnByte, out_type, bit) ==
    IF returnByte THEN [err |-> "ok", val |-> PyBytes(data)]
    ELSE IF out_type = "BOOL" THEN get_bool(data, bit)
    ELSE IF out_type = "INT" THEN get_int(data)
    ELSE IF out_type = "REAL" THEN get_real(data)
    ELSE IF out_type = "DWORD" THEN get_dword(data)
    ELSE [err |-> "ok", val |-> PyNone]

Encoded(area, db_number, start, r) ==
    [area |-> area, data |-> r.data, db_number |-> db_number, err |-> r.err, start |-> start]

EncodeRaised(e, data) ==
    [area |-> "MK", data |-> data, db_number |-> 0, err |-> e, start |-> 0]

\* The three word-style prefixes of line 269.
writeMem_word_alias(mem) ==
    \/ startswith(mem, <<"a","q","w">>)
    \/ startswith(mem, <<"q","w">>)
    \/ startswith(mem, <<"v","w">>)

\* The "db" branch, lines 223-244.
writeMem_encode_db(mem, data, value) ==
    LET parts == split(mem, ".")
        dbn   == py_int(from(parts[1], 2))
    IN  IF dbn.err # "ok" THEN EncodeRaised(dbn.err, data)
        ELSE IF Len(parts) < 2 THEN EncodeRaised("IndexError", data)
        ELSE
        LET sub == parts[2]
            num == py_int(from(sub, 3))
        IN  IF startswith(sub, <<"d","b","x">>)
            THEN LET st == py_int(split(from(sub, 3), ".")[1])
                     sp == split(sub, ".")
                 IN  IF st.err # "ok" THEN EncodeRaised(st.err, data)
                     ELSE IF Len(sp) < 2 THEN EncodeRaised("IndexError", data)
                     ELSE IF py_int(sp[2]).err # "ok"
                     THEN EncodeRaised("ValueError", data)
                     ELSE Encoded("DB", dbn.val, st.val,
                                  set_bool(data, py_int(sp[2]).val, to_int(value)))
            ELSE IF startswith(sub, <<"d","b","b">>)
            THEN IF num.err # "ok" THEN EncodeRaised(num.err, data)
                 ELSE Encoded("DB", dbn.val, num.val, set_int(data, value))
            ELSE IF startswith(sub, <<"d","b","w">>)
            THEN IF num.err # "ok" THEN EncodeRaised(num.err, data)
                 ELSE Encoded("DB", dbn.val, num.val, set_int(data, value))
            ELSE IF startswith(sub, <<"d","b","d">>)
            THEN IF num.err # "ok" THEN EncodeRaised(num.err, data)
                 ELSE Encoded("DB", dbn.val, num.val, set_real(data, value))
            ELSE Encoded("DB", dbn.val, 0, [data |-> data, err |-> "ok"])

\* The other branch, lines 245-276.
writeMem_encode_other(mem, data, value) ==
    LET ar == resolve_area(mem) IN
    IF ar.err # "ok" THEN EncodeRaised(ar.err, data)
    ELSE IF Len(mem) < 2 THEN EncodeRaised("IndexError", data)
    ELSE
    LET num2 == py_int(from(mem, 2))
        num3 == py_int(from(mem, 3))
    IN  IF mem[2] = "x"
        THEN LET st == py_int(split(from(mem, 2), ".")[1])
                 sp == split(mem, ".")
             IN  IF st.err # "ok" THEN EncodeRaised(st.err, data)
                 ELSE IF Len(sp) < 2 THEN EncodeRaised("IndexError", data)
                 ELSE IF py_int(sp[2]).err # "ok"
                 THEN EncodeRaised("ValueError", data)
                 ELSE Encoded(ar.area, 0, st.val,
                              set_bool(data, py_int(sp[2]).val, to_int(value)))
        ELSE IF mem[2] = "b"
        THEN IF num2.err # "ok" THEN EncodeRaised(num2.err, data)
             ELSE Encoded(ar.area, 0, num2.val, set_int(data, value))
        ELSE IF mem[2] = "w"
        THEN IF num2.err # "ok" THEN EncodeRaised(num2.err, data)
             ELSE Encoded(ar.area, 0, num2.val, set_int(data, value))
        ELSE IF mem[2] = "d"
        THEN IF num2.err # "ok" THEN EncodeRaised(num2.err, data)
             ELSE Encoded(ar.area, 0, num2.val,
                          IF startswith(mem, <<"v","d">>)
                          THEN set_real(data, value) ELSE set_dword(data, value))
        ELSE IF writeMem_word_alias(mem)
        THEN IF num3.err # "ok" THEN EncodeRaised(num3.err, data)
             ELSE Encoded(ar.area, 0, num3.val, set_int(data, value))
        ELSE IF startswith(mem, <<"v","d">>)
        THEN IF num2.err # "ok" THEN EncodeRaised(num2.err, data)
             ELSE Encoded(ar.area, 0, num2.val, set_real(data, value))
        ELSE Encoded(ar.area, 0, 0, [data |-> data, err |-> "ok"])

\* Lines 219-276 on the translated, lower-cased address.
writeMem_encode(mem, data, value) ==
    IF startswith(mem, <<"d","b">>) THEN writeMem_encode_db(mem, data, value)
    ELSE writeMem_encode_other(mem, data, value)


(***************************************************************************)
(* Bounds of the model                                                     *)
(***************************************************************************)
\* Concurrent callers (request handlers, polling loops, collector thread).
NThreads == 2

\* getMem/writeMem calls started in one behaviour, over all callers.
MaxCalls == 2

\* get_plc() calls started in one behaviour, over all callers.
MaxGetPlc == 3

\* Device memory holds byte offsets 0..MaxOffset of every area and block.
MaxOffset == 3

\* Data blocks 1..MaxDB exist on the device (the other areas use block 0).
MaxDB == 2

\* The strings _translate_alias and _resolve_area are called with: every
\* string of at most MaxLen characters of Alphabet (and the strings of the
\* test-suite).
MaxLen == 3

\* disconnect() calls in a behaviour.
MaxDisconnect == 2

Threads == 1..NThreads

NoThread == 0

Areas == {"DB", "PE", "PA", "MK"}

\* Data blocks are numbered from 1; the other areas are addressed with block 0.
Cells ==
    {c \in Areas \X (0..MaxDB) \X (0..MaxOffset) : (c[1] = "DB") = (c[2] > 0)}

ZeroMemory == [c \in Cells |-> 0]

\* A device image in which every byte has bits set and bits clear.
PatternMemory == [c \in Cells |-> (165 + 17 * c[3] + 3 * c[2]) % 256]

(***************************************************************************)
(* The calls the callers make.  An entry names the address as the caller   *)
(* writes it and, for the formulas, the form the interface contract gives  *)
(* it: the area, block, byte and bit it designates.                        *)
(***************************************************************************)
Entry(addr, form, area, db, off, bit) ==
    [addr |-> addr, area |-> area, bit |-> bit, db |-> db, form |-> form, off |-> off]

BitEntries ==
    { Entry(<<"V","X","0",".","3">>, "bit", "MK", 0, 0, 3),
      Entry(<<"M","1",".","0">>, "bit", "MK", 0, 1, 0),
      Entry(<<"m","1",".","7">>, "bit", "MK", 0, 1, 7),
      Entry(<<"D","B","1",".","D","B","X","0",".","1">>, "bit", "DB", 1, 0, 1),
      Entry(<<"I","X","0",".","2">>, "bit", "PE", 0, 0, 2),
      Entry(<<"Q","X","1",".","5">>, "bit", "PA", 0, 1, 5) }

ByteEntries ==
    { Entry(<<"D","B","1",".","D","B","B","2">>, "byte", "DB", 1, 2, 0),
      Entry(<<"V","B","1">>, "byte", "MK", 0, 1, 0) }

WordEntries ==
    { Entry(<<"D","B","1",".","D","B","W","0">>, "word", "DB", 1, 0, 0),
      Entry(<<"V","W","2">>, "word", "DB", 1, 2, 0),
      Entry(<<"A","Q","W","0">>, "word", "PA", 0, 0, 0),
      Entry(<<"A","I","W","2">>, "word", "PE", 0, 2, 0),
      Entry(<<"i","w","0">>, "word", "PE", 0, 0, 0) }

RealEntries ==
    { Entry(<<"V","D","0">>, "real", "DB", 1, 0, 0),
      Entry(<<"D","B","2",".","D","B","D","0">>, "real", "DB", 2, 0, 0) }

DwordEntries ==
    { Entry(<<"M","D","0">>, "dword", "MK", 0, 0, 0),
      Entry(<<"Q","D","0">>, "dword", "PA", 0, 0, 0) }

SeqEntries == BitEntries \cup ByteEntries \cup WordEntries \cup RealEntries
              \cup DwordEntries

\* The values a caller writes to an address of each form.
ValuesOf(form) ==
    CASE form = "bit" -> {PyBool(TRUE), PyBool(FALSE)}
      [] form \in {"byte", "word"} -> {PyInt(258), PyInt(0 - 2)}
      [] form = "real" -> {PyFloat(0, 127, 4194304), PyFloat(1, 126, 4194304)}
      [] form = "dword" -> {PyBig(45776, 24064), PyInt(66051)}

GetOp(m) == [kind |-> "getMem", m |-> m, returnByte |-> FALSE, value |-> PyNone]

WriteOp(m, v) == [kind |-> "writeMem", m |-> m, returnByte |-> FALSE, value |-> v]

GetBytesOp(m) == [kind |-> "getMem", m |-> m, returnByte |-> TRUE, value |-> PyNone]

NoOp == [kind |-> "none", m |-> Entry(<<>>, "none", "MK", 0, 0, 0), returnByte |-> FALSE, value |-> PyNone]

\* A single caller: reads and writes of every form.
SeqOps ==
    {GetOp(m) : m \in SeqEntries}
    \cup UNION {{WriteOp(m, v) : v \in ValuesOf(m.form)} : m \in SeqEntries}

\* The same calls, and getMem(mem, returnByte=True) of every address.
LifeOps == SeqOps \cup {GetBytesOp(m) : m \in SeqEntries}

\* Concurrent callers: caller t sets its own bit t-1 of marker byte 0, and
\* every caller reads and writes the word DB1.DBW0.
OwnBit(t) ==
    Entry(<<"V","X","0",".">> \o <<DigitChars[t]>>, "bit", "MK", 0, 0, t - 1)

SharedWord == Entry(<<"D","B","1",".","D","B","W","0">>, "word", "DB", 1, 0, 0)

ConcOps(t) ==
    { WriteOp(OwnBit(t), PyBool(TRUE)), GetOp(SharedWord),
      WriteOp(SharedWord, PyInt(258)) }

\* A single caller, one call, over well-formed and malformed addresses:
\* a head, a selector, a number and a tail; and the strings the test-suite
\* names.
AddrHeads ==
    { <<"D","B","1",".","D","B">>, <<"d","b","2",".","d","b">>,
      <<"D","B","1",".">>, <<"D","B","1">>, <<"D","B">>,
      <<"V">>, <<"v">>, <<"M">>, <<"I">>, <<"Q">>, <<"A","I">>, <<"A","Q">>,
      <<"A">>, <<"X">>, <<"D">> }

AddrSelectors ==
    { <<>>, <<"X">>, <<"B">>, <<"W">>, <<"D">>, <<"x">>, <<"w">>, <<"Q">>,
      <<"Z">> }

AddrNumbers == { <<>>, <<"0">>, <<"2">>, <<"1","2">>, <<"-","1">> }

AddrTails == { <<>>, <<".","1">>, <<".","8">>, <<".","1",".","2">> }

TestStrings ==
    { <<"u","n","k","n","o","w","n">>, <<"x","y","z","1","2","3">>,
      <<"r","a","n","d","o","m","_","s","t","r","i","n","g">>,
      <<"M","1",".","0">>, <<"m","1","0",".","7">>, <<"M","2","5","5",".","3">>,
      <<"V","D","1","0","0">>, <<"v","d","0">>, <<"V","W","5","0">>,
      <<"v","w","0">>, <<"D","B","1",".","D","B","X","0",".","0">>,
      <<"D","B","1","0",".","D","B","W","1","0","0">>,
      <<"Q","X","0",".","1">>, <<"I","X","1",".","0">>,
      <<"V","X","1","0",".","5">>, <<"M","X","1",".","0">>,
      <<"M","1",".","2",".","3">>, <<"a","i","w","0">>, <<"i","b","5">>,
      <<"a","q","w","0">>, <<"q","b","5">>, <<"m","b","1","0">> }

Addresses ==
    { h \o c \o n \o x :
        h \in AddrHeads, c \in AddrSelectors, n \in AddrNumbers, x \in AddrTails }
    \cup TestStrings

\* The values written: a bool, an int and a float (1.5).
AddrValues == { PyBool(TRUE), PyInt(5), PyFloat(0, 127, 4194304) }

RawEntry(addr) == Entry(addr, "raw", "MK", 0, 0, 0)

AddrOps ==
    {GetOp(RawEntry(a)) : a \in Addresses}
    \cup {WriteOp(RawEntry(a), v) : a \in Addresses, v \in AddrValues}

\* The characters of the short strings.
\* Lower-case addresses of every form, and some that are malformed; the
\* callers pass them in every mix of letter case.
CaseBases ==
    { <<"v","x","0",".","3">>, <<"m","1",".","0">>, <<"m","0",".","8">>,
      <<"d","b","1",".","d","b","x","0",".","1">>, <<"d","b","1",".","d","b","b","2">>,
      <<"d","b","1",".","d","b","w","0">>, <<"d","b","2",".","d","b","d","0">>,
      <<"v","w","2">>, <<"v","d","0">>, <<"v","d","1","2">>, <<"a","i","w","2">>,
      <<"a","q","w","0">>, <<"i","w","0">>, <<"q","x","1",".","5">>, <<"i","b","1">>,
      <<"m","d","0">>, <<"m","x","1",".","0">>, <<"v","0">>,
      <<"x","y","z">>, <<"m","1",".","2",".","3">> }

RECURSIVE Variants(_)
Variants(s) ==
    IF Len(s) = 0 THEN { <<>> }
    ELSE { <<c>> \o r : c \in {lower_char(s[1]), upper_char(s[1])},
                        r \in Variants(from(s, 1)) }

\* The first caller's calls, and the same call with the address in another
\* mix of case.
CaseOps ==
    {GetOp(RawEntry(a)) : a \in CaseBases}
    \cup {WriteOp(RawEntry(a), v) : a \in CaseBases, v \in AddrValues}

RecasedOps(o) ==
    { [o EXCEPT !.m = RawEntry(a)] : a \in Variants(o.m.addr) }

Alphabet ==
    { "M", "m", "V", "v", "D", "d", "W", "w", "B", "b", "A", "a", "I", "i",
      "Q", "q", "X", ".", "1", "Z" }

RECURSIVE Strs(_)
Strs(n) ==
    IF n = 0 THEN {<<>>}
    ELSE LET shorter == Strs(n - 1)
         IN  shorter \cup {Append(x, c) : x \in shorter, c \in Alphabet}

FnArgs == Strs(MaxLen) \cup TestStrings

(***************************************************************************)
(* State                                                                   *)
(***************************************************************************)
VARIABLES
    device,        \* the controller's memory, [Cells -> 0..255]
    lock,          \* self.lock: the thread holding it, or NoThread
    pc,            \* pc[t]: where caller t is in getMem/writeMem
    op,            \* op[t]: the call caller t is in
    wmem,          \* writeMem's local mem: the translated, lower-cased address
    g,             \* getMem's locals area, db_number, start, length, out_type, bit
    w,             \* writeMem's locals area, db_number, start
    buf,           \* the bytearray: read_area's result, then write_area's argument
    wi,            \* bytes of buf that write_area has stored in the device
    result,        \* what the call returns or raises
    prev,          \* prev[t]: caller t's latest call, if it was a writeMem that returned
    io,            \* io[t]: lock and transport events of caller t's call, in order
    ncalls,        \* calls started
    plc_instance,  \* shared.py's global: 0 is None, else the session's number
    nconstructed,  \* S7_200 objects constructed
    env_ok,        \* PLC_IP, PLC_LOCALTSAP, PLC_REMOTETSAP are set
    session_up,    \* session_up[s]: session s's transport connected
    session_log,   \* session_log[s]: connect and disconnect calls on session s's client
    ndisconnect,   \* disconnect() calls made
    gp_pc,         \* gp_pc[t]: where caller t is in get_plc
    gp_new,        \* gp_new[t]: the S7_200 caller t is constructing
    gp_ret,        \* gp_ret[t]: what get_plc returned to caller t (0: nothing yet)
    ngetplc,       \* get_plc() calls started
    arg,           \* the string _translate_alias or _resolve_area is called with
    ret            \* what that call returned or raised

txvars == <<device, lock, pc, op, wmem, g, w, buf, wi, result, prev, io, ncalls>>

gpvars == <<plc_instance, nconstructed, env_ok, session_up, session_log,
            ndisconnect, gp_pc, gp_new, gp_ret, ngetplc>>

fnvars == <<arg, ret>>

vars == <<txvars, gpvars, fnvars>>


(***************************************************************************)
(* Helpers of the actions                                                  *)
(***************************************************************************)
\* The events of a call: the lock taken and released, the transport calls
\* with their arguments, and the sleep.
AcquireEv == <<"acquire">>

ReleaseEv == <<"release">>

SleepEv == <<"sleep">>

ReadAreaEv(p) == <<"read_area", p.area, p.db_number, p.start, p.length>>

WriteAreaEv(e, data) == <<"write_area", e.area, e.db_number, e.start, Len(data)>>

\* snap7.client.Client.connect returns with the client connected, returns
\* with get_connected() false, or raises.
ConnectOutcomes == {"connected", "refused", "raised"}

ConnectEv(outcome) == <<"connect", outcome>>

DisconnectEv == <<"disconnect">>

NoResult == [err |-> "none", val |-> PyNone]

Raise(e) == [err |-> e, val |-> PyNone]

NoParams == Raised("none")

NoEncoded == EncodeRaised("none", <<>>)

NoPrev == [op |-> NoOp, result |-> NoResult]

\* The transport client of the shared session is connected.
connected == plc_instance # 0 /\ session_up[plc_instance]

\* A lock whose acquire() never waits.
lock_free_never_waits == TRUE

\* threading.Lock: acquire() returns only when no thread holds the lock.
lock_free == lock = NoThread

\* The device serves a request of n bytes at start of the area and block.
RangeOk(area, db, start, n) ==
    \A i \in 0..(n - 1) : <<area, db, start + i>> \in Cells

(***************************************************************************)
(* S7_200.getMem and S7_200.writeMem, one action per step                  *)
(***************************************************************************)
\* A getMem and writeMem that refuse to start on a session that is not
\* connected.
Call_requires_connection(t, o) ==
    /\ pc[t] = "idle"
    /\ ncalls < MaxCalls
    /\ plc_instance # 0
    /\   LET tr  == translate_alias(o.m.addr)
             mem == lower(tr.s)
             r   == IF o.kind = "getMem" THEN getMem_resolve(o.m.addr)
                    ELSE IF tr.err # "ok" THEN Raised(tr.err)
                    ELSE getMem_resolve(mem)
         IN  /\ op' = [op EXCEPT ![t] = o]
             /\ wmem' = [wmem EXCEPT ![t] = IF o.kind = "writeMem" THEN mem ELSE <<>>]
             /\ g' = [g EXCEPT ![t] = r]
             /\ pc' = [pc EXCEPT ![t] = IF r.err = "ok" /\ connected
                                        THEN "g_acquire" ELSE "done"]
             /\ result' = [result EXCEPT ![t] =
                               IF r.err # "ok" THEN Raise(r.err)
                               ELSE IF connected THEN NoResult
                               ELSE Raise("TransportError")]
    /\ ncalls' = ncalls + 1
    /\ UNCHANGED <<device, lock, w, buf, wi, prev, io, gpvars, fnvars>>

\* A caller enters getMem (lines 108-176) or writeMem (lines 209-217, then
\* the getMem it calls, to line 176): the address is translated and
\* resolved; an exception leaves the call at once.
Call(t, o) ==
    /\ pc[t] = "idle"
    /\ ncalls < MaxCalls
    /\ plc_instance # 0
    /\   LET tr  == translate_alias(o.m.addr)
             mem == lower(tr.s)
             r   == IF o.kind = "getMem" THEN getMem_resolve(o.m.addr)
                    ELSE IF tr.err # "ok" THEN Raised(tr.err)
                    ELSE getMem_resolve(mem)
         IN  /\ op' = [op EXCEPT ![t] = o]
             /\ wmem' = [wmem EXCEPT ![t] = IF o.kind = "writeMem" THEN mem ELSE <<>>]
             /\ g' = [g EXCEPT ![t] = r]
             /\ pc' = [pc EXCEPT ![t] = IF r.err = "ok" THEN "g_acquire" ELSE "done"]
             /\ result' = [result EXCEPT ![t] =
                               IF r.err = "ok" THEN NoResult ELSE Raise(r.err)]
    /\ ncalls' = ncalls + 1
    /\ UNCHANGED <<device, lock, w, buf, wi, prev, io, gpvars, fnvars>>

\* A read path that goes to read_area without taking the lock.
AcquireRead_without_lock(t) ==
    /\ pc[t] = "g_acquire"
    /\ pc' = [pc EXCEPT ![t] = "g_read"]
    /\ io' = [io EXCEPT ![t] = Append(@, ReadAreaEv(g[t]))]
    /\ UNCHANGED <<device, lock, op, wmem, g, w, buf, wi, result, prev, ncalls,
                   gpvars, fnvars>>

\* "with self.lock:" of getMem, line 178.
AcquireRead(t) ==
    /\ pc[t] = "g_acquire"
    /\ lock_free
    /\ lock' = t
    /\ pc' = [pc EXCEPT ![t] = "g_read"]
    /\ io' = [io EXCEPT ![t] = @ \o <<AcquireEv, ReadAreaEv(g[t])>>]
    /\ UNCHANGED <<device, op, wmem, g, w, buf, wi, result, prev,
                   ncalls, gpvars, fnvars>>

\* A getMem whose lock stays held when read_area raises.
ReadAreaRaises_keeps_lock(t) ==
    /\ pc[t] = "g_read"
    /\ Len(buf[t]) = 0
    /\ ~connected \/ ~RangeOk(g[t].area, g[t].db_number, g[t].start, g[t].length)
    /\ result' = [result EXCEPT ![t] = Raise("TransportError")]
    /\ pc' = [pc EXCEPT ![t] = "done"]
    /\ io' = [io EXCEPT ![t] = Append(@, ReleaseEv)]
    /\ UNCHANGED <<device, lock, op, wmem, g, w, buf, wi, prev, ncalls,
                   gpvars, fnvars>>

\* A getMem that issues read_area a second time when the first one raises.
ReadAreaRaises_retries_once(t) ==
    /\ pc[t] = "g_read"
    /\ Len(buf[t]) = 0
    /\ ~connected \/ ~RangeOk(g[t].area, g[t].db_number, g[t].start, g[t].length)
    /\ IF Len(io[t]) = 2
       THEN /\ io' = [io EXCEPT ![t] = Append(@, ReadAreaEv(g[t]))]
            /\ UNCHANGED <<lock, result, pc>>
       ELSE /\ lock' = NoThread
            /\ result' = [result EXCEPT ![t] = Raise("TransportError")]
            /\ pc' = [pc EXCEPT ![t] = "done"]
            /\ io' = [io EXCEPT ![t] = Append(@, ReleaseEv)]
    /\ UNCHANGED <<device, op, wmem, g, w, buf, wi, prev, ncalls,
                   gpvars, fnvars>>

\* read_area raises (line 179): the with statement releases the lock and
\* the except clause of line 204 re-raises.
ReadAreaRaises(t) ==
    /\ pc[t] = "g_read"
    /\ Len(buf[t]) = 0
    /\ ~connected \/ ~RangeOk(g[t].area, g[t].db_number, g[t].start, g[t].length)
    /\ lock' = NoThread
    /\ result' = [result EXCEPT ![t] = Raise("TransportError")]
    /\ pc' = [pc EXCEPT ![t] = "done"]
    /\ io' = [io EXCEPT ![t] = Append(@, ReleaseEv)]
    /\ UNCHANGED <<device, op, wmem, g, w, buf, wi, prev, ncalls,
                   gpvars, fnvars>>

\* read_area fetches the next byte of the request from the device.
ReadAreaByte(t) ==
    /\ pc[t] = "g_read"
    /\ Len(buf[t]) < g[t].length
    /\ \/ Len(buf[t]) > 0
       \/ connected /\ RangeOk(g[t].area, g[t].db_number, g[t].start, g[t].length)
    /\ buf' = [buf EXCEPT ![t] =
                   Append(@, device[<<g[t].area, g[t].db_number,
                                      g[t].start + Len(buf[t])>>])]
    /\ UNCHANGED <<device, lock, pc, op, wmem, g, w, wi, result, prev,
                   ncalls, io, gpvars, fnvars>>

\* A writeMem that calls getMem inside its own `with self.lock` block: the
\* lock taken for the read is still held when the write asks for it.
ReadAreaReturns_inside_write_lock(t) ==
    /\ pc[t] = "g_read"
    /\ Len(buf[t]) = g[t].length
    /\ IF op[t].kind = "getMem"
       THEN /\ result' = [result EXCEPT ![t] =
                              getMem_decode(buf[t], op[t].returnByte,
                                            g[t].out_type, g[t].bit)]
            /\ pc' = [pc EXCEPT ![t] = "done"]
            /\ lock' = NoThread
            /\ UNCHANGED <<w, buf>>
       ELSE LET e == writeMem_encode(wmem[t], buf[t], op[t].value) IN
            /\ w' = [w EXCEPT ![t] = e]
            /\ buf' = [buf EXCEPT ![t] = e.data]
            /\ result' = [result EXCEPT ![t] =
                              IF e.err = "ok" THEN NoResult ELSE Raise(e.err)]
            /\ pc' = [pc EXCEPT ![t] = IF e.err = "ok" THEN "w_acquire" ELSE "done"]
            /\ lock' = IF e.err = "ok" THEN lock ELSE NoThread
    /\ io' = [io EXCEPT ![t] = Append(@, ReleaseEv)]
    /\ UNCHANGED <<device, op, wmem, g, wi, prev, ncalls, gpvars, fnvars>>

\* A writeMem that swallows the exception of the encoding and writes the
\* buffer as it is.
ReadAreaReturns_swallowing(t) ==
    /\ pc[t] = "g_read"
    /\ Len(buf[t]) = g[t].length
    /\ lock' = NoThread
    /\ IF op[t].kind = "getMem"
       THEN /\ result' = [result EXCEPT ![t] =
                              getMem_decode(buf[t], op[t].returnByte,
                                            g[t].out_type, g[t].bit)]
            /\ pc' = [pc EXCEPT ![t] = "done"]
            /\ UNCHANGED <<w, buf>>
       ELSE LET e == writeMem_encode(wmem[t], buf[t], op[t].value) IN
            /\ w' = [w EXCEPT ![t] = e]
            /\ buf' = [buf EXCEPT ![t] = e.data]
            /\ result' = [result EXCEPT ![t] = NoResult]
            /\ pc' = [pc EXCEPT ![t] = "w_acquire"]
    /\ io' = [io EXCEPT ![t] = Append(@, ReleaseEv)]
    /\ UNCHANGED <<device, op, wmem, g, wi, prev, ncalls, gpvars, fnvars>>

\* read_area has returned: the lock is released (end of the with block of
\* line 178).  getMem decodes and returns (lines 182-202); inside writeMem
\* the raw buffer comes back and lines 219-278 encode the value into it.
ReadAreaReturns(t) ==
    /\ pc[t] = "g_read"
    /\ Len(buf[t]) = g[t].length
    /\ lock' = NoThread
    /\ IF op[t].kind = "getMem"
       THEN /\ result' = [result EXCEPT ![t] =
                              getMem_decode(buf[t], op[t].returnByte,
                                            g[t].out_type, g[t].bit)]
            /\ pc' = [pc EXCEPT ![t] = "done"]
            /\ UNCHANGED <<w, buf>>
       ELSE \E e \in {writeMem_encode(wmem[t], buf[t], op[t].value)} :
            /\ w' = [w EXCEPT ![t] = e]
            /\ buf' = [buf EXCEPT ![t] = e.data]
            /\ result' = [result EXCEPT ![t] =
                              IF e.err = "ok" THEN NoResult ELSE Raise(e.err)]
            /\ pc' = [pc EXCEPT ![t] = IF e.err = "ok" THEN "w_acquire" ELSE "done"]
    /\ io' = [io EXCEPT ![t] = Append(@, ReleaseEv)]
    /\ UNCHANGED <<device, op, wmem, g, wi, prev, ncalls, gpvars, fnvars>>

\* A writeMem that reads the bytes once more under the write's lock.
AcquireWrite_rereads(t) ==
    /\ pc[t] = "w_acquire"
    /\ lock_free
    /\ lock' = t
    /\ pc' = [pc EXCEPT ![t] = "w_write"]
    /\ wi' = [wi EXCEPT ![t] = 0]
    /\ io' = [io EXCEPT ![t] = @ \o <<AcquireEv, ReadAreaEv(g[t]),
                                      WriteAreaEv(w[t], buf[t])>>]
    /\ UNCHANGED <<device, op, wmem, g, w, buf, result, prev, ncalls,
                   gpvars, fnvars>>

\* "with self.lock:" of writeMem, line 280.
AcquireWrite(t) ==
    /\ pc[t] = "w_acquire"
    /\ lock_free
    /\ lock' = t
    /\ pc' = [pc EXCEPT ![t] = "w_write"]
    /\ wi' = [wi EXCEPT ![t] = 0]
    /\ io' = [io EXCEPT ![t] = @ \o <<AcquireEv, WriteAreaEv(w[t], buf[t])>>]
    /\ UNCHANGED <<device, op, wmem, g, w, buf, result, prev, ncalls,
                   gpvars, fnvars>>

\* write_area raises (line 281): the lock is released, line 287 re-raises.
WriteAreaRaises(t) ==
    /\ pc[t] = "w_write"
    /\ wi[t] = 0
    /\ ~connected \/ ~RangeOk(w[t].area, w[t].db_number, w[t].start, Len(buf[t]))
    /\ lock' = NoThread
    /\ result' = [result EXCEPT ![t] = Raise("TransportError")]
    /\ pc' = [pc EXCEPT ![t] = "done"]
    /\ io' = [io EXCEPT ![t] = Append(@, ReleaseEv)]
    /\ UNCHANGED <<device, op, wmem, g, w, buf, wi, prev, ncalls,
                   gpvars, fnvars>>

\* write_area stores the next byte of the buffer in the device.
WriteAreaByte(t) ==
    /\ pc[t] = "w_write"
    /\ wi[t] < Len(buf[t])
    /\ \/ wi[t] > 0
       \/ connected /\ RangeOk(w[t].area, w[t].db_number, w[t].start, Len(buf[t]))
    /\ device' = [device EXCEPT ![<<w[t].area, w[t].db_number, w[t].start + wi[t]>>] =
                       buf[t][wi[t] + 1]]
    /\ wi' = [wi EXCEPT ![t] = @ + 1]
    /\ UNCHANGED <<lock, pc, op, wmem, g, w, buf, result, prev, ncalls, io, gpvars, fnvars>>

\* A writeMem whose with block ends at write_area's return, so that it
\* sleeps after releasing the lock.
SettlingDelay_after_release(t) ==
    /\ pc[t] = "w_write"
    /\ wi[t] = Len(buf[t])
    /\ lock' = NoThread
    /\ pc' = [pc EXCEPT ![t] = "w_sleep"]
    /\ io' = [io EXCEPT ![t] = @ \o <<ReleaseEv, SleepEv>>]
    /\ UNCHANGED <<device, op, wmem, g, w, buf, wi, result, prev,
                   ncalls, gpvars, fnvars>>

\* write_area has returned; time.sleep(0.05) of line 282 starts.
SettlingDelay(t) ==
    /\ pc[t] = "w_write"
    /\ wi[t] = Len(buf[t])
    /\ pc' = [pc EXCEPT ![t] = "w_sleep"]
    /\ io' = [io EXCEPT ![t] = Append(@, SleepEv)]
    /\ UNCHANGED <<device, lock, op, wmem, g, w, buf, wi, result, prev,
                   ncalls, gpvars, fnvars>>

\* The sleep is over: the with block of line 280 ends and writeMem returns
\* write_area's result (line 285).
ReleaseWrite(t) ==
    /\ pc[t] = "w_sleep"
    /\ lock' = NoThread
    /\ result' = [result EXCEPT ![t] = [err |-> "ok", val |-> PyInt(0)]]
    /\ pc' = [pc EXCEPT ![t] = "done"]
    /\ io' = [io EXCEPT ![t] = Append(@, ReleaseEv)]
    /\ UNCHANGED <<device, op, wmem, g, w, buf, wi, prev, ncalls,
                   gpvars, fnvars>>

\* The caller has the value or the exception; the frame's locals are gone.
Return(t) ==
    /\ pc[t] = "done"
    /\ prev' = [prev EXCEPT ![t] =
                    IF op[t].kind = "writeMem" /\ result[t].err = "ok"
                    THEN [op |-> op[t], result |-> result[t]] ELSE NoPrev]
    /\ pc' = [pc EXCEPT ![t] = "idle"]
    /\ op' = [op EXCEPT ![t] = NoOp]
    /\ wmem' = [wmem EXCEPT ![t] = <<>>]
    /\ g' = [g EXCEPT ![t] = NoParams]
    /\ w' = [w EXCEPT ![t] = NoEncoded]
    /\ buf' = [buf EXCEPT ![t] = <<>>]
    /\ wi' = [wi EXCEPT ![t] = 0]
    /\ result' = [result EXCEPT ![t] = NoResult]
    /\ io' = [io EXCEPT ![t] = <<>>]
    /\ UNCHANGED <<device, lock, ncalls, gpvars, fnvars>>

\* A disconnect that brings a session that is down back up.
Disconnect_toggles ==
    /\ plc_instance # 0
    /\ ndisconnect < MaxDisconnect
    /\ ndisconnect' = ndisconnect + 1
    /\ session_up' = [session_up EXCEPT ![plc_instance] = ~@]
    /\ session_log' = [session_log EXCEPT ![plc_instance] = Append(@, DisconnectEv)]
    /\ UNCHANGED <<txvars, fnvars, plc_instance, nconstructed, env_ok, gp_pc, gp_new,
                   gp_ret, ngetplc>>

\* S7_200.disconnect (lines 291-299): the transport client disconnects,
\* whether it was connected or not; the lock is not taken.
Disconnect ==
    /\ plc_instance # 0
    /\ ndisconnect < MaxDisconnect
    /\ ndisconnect' = ndisconnect + 1
    /\ session_up' = [session_up EXCEPT ![plc_instance] = FALSE]
    /\ session_log' = [session_log EXCEPT ![plc_instance] = Append(@, DisconnectEv)]
    /\ UNCHANGED <<txvars, fnvars, plc_instance, nconstructed, env_ok, gp_pc, gp_new,
                   gp_ret, ngetplc>>

(***************************************************************************)
(* get_plc (shared.py lines 24-34) and S7_200.__init__ (plc.py lines 32-60)*)
(***************************************************************************)
\* "if plc_instance is None:" of line 27.
GetPlcCall(t) ==
    /\ gp_pc[t] \in {"idle", "returned", "raised"}
    /\ ngetplc < MaxGetPlc
    /\ ngetplc' = ngetplc + 1
    /\ gp_pc' = [gp_pc EXCEPT ![t] = IF plc_instance = 0 THEN "construct" ELSE "return"]
    /\ gp_ret' = [gp_ret EXCEPT ![t] = 0]
    /\ UNCHANGED <<txvars, fnvars, plc_instance, nconstructed, env_ok, session_up,
                   session_log, ndisconnect, gp_new>>

\* S7_200() of line 29, to line 48: int(os.getenv(...), 16) raises TypeError
\* when the variable is unset, which get_plc turns into HTTPException 503;
\* otherwise a new object with its own client and its own lock exists.
Construct(t) ==
    /\ gp_pc[t] = "construct"
    /\ IF env_ok
       THEN /\ nconstructed' = nconstructed + 1
            /\ gp_new' = [gp_new EXCEPT ![t] = nconstructed + 1]
            /\ gp_pc' = [gp_pc EXCEPT ![t] = "connect"]
       ELSE /\ gp_pc' = [gp_pc EXCEPT ![t] = "raised"]
            /\ UNCHANGED <<nconstructed, gp_new>>
    /\ UNCHANGED <<txvars, fnvars, plc_instance, env_ok, session_up, session_log,
                   ndisconnect, gp_ret, ngetplc>>

\* An __init__ that lets the exception of connect() reach its caller.
Connect_raises_on_failure(t) ==
    /\ gp_pc[t] = "connect"
    /\ \E outcome \in ConnectOutcomes :
         /\ session_up' = [session_up EXCEPT ![gp_new[t]] = outcome = "connected"]
         /\ session_log' = [session_log EXCEPT ![gp_new[t]] =
                                Append(@, ConnectEv(outcome))]
         /\ gp_pc' = [gp_pc EXCEPT ![t] =
                          IF outcome = "raised" THEN "raised" ELSE "assign"]
    /\ UNCHANGED <<txvars, fnvars, plc_instance, nconstructed, env_ok, ndisconnect,
                   gp_new, gp_ret, ngetplc>>

\* Lines 50-60: connect() succeeds, or leaves the client not connected, or
\* raises; __init__ logs and returns in each case.
Connect(t) ==
    /\ gp_pc[t] = "connect"
    /\ \E outcome \in ConnectOutcomes :
         /\ session_up' = [session_up EXCEPT ![gp_new[t]] = outcome = "connected"]
         /\ session_log' = [session_log EXCEPT ![gp_new[t]] =
                                Append(@, ConnectEv(outcome))]
    /\ gp_pc' = [gp_pc EXCEPT ![t] = "assign"]
    /\ UNCHANGED <<txvars, fnvars, plc_instance, nconstructed, env_ok, ndisconnect,
                   gp_new, gp_ret, ngetplc>>

\* The assignment of line 29.
Assign(t) ==
    /\ gp_pc[t] = "assign"
    /\ plc_instance' = gp_new[t]
    /\ gp_pc' = [gp_pc EXCEPT ![t] = "return"]
    /\ UNCHANGED <<txvars, fnvars, nconstructed, env_ok, session_up, session_log,
                   ndisconnect, gp_new, gp_ret, ngetplc>>

\* "return plc_instance" of line 34.
ReturnPlc(t) ==
    /\ gp_pc[t] = "return"
    /\ gp_ret' = [gp_ret EXCEPT ![t] = plc_instance]
    /\ gp_pc' = [gp_pc EXCEPT ![t] = "returned"]
    /\ UNCHANGED <<txvars, fnvars, plc_instance, nconstructed, env_ok, session_up,
                   session_log, ndisconnect, gp_new, ngetplc>>

(***************************************************************************)
(* _translate_alias and _resolve_area called on their own                  *)
(***************************************************************************)
Returned(fn, r, v) == [err |-> r.err, fn |-> fn, val |-> v]

\* plc._translate_alias(arg)
TranslateAlias ==
    /\ ret = <<>>
    /\ LET r == translate_alias(arg)
       IN  ret' = <<Returned("_translate_alias", r, r.s)>>
    /\ UNCHANGED <<txvars, gpvars, arg>>

\* plc._translate_alias applied to what it returned: writeMem translates
\* (line 216) and the getMem it calls translates again (line 115).
TranslateAliasAgain ==
    /\ Len(ret) = 1
    /\ ret[1].fn = "_translate_alias"
    /\ ret[1].err = "ok"
    /\ LET r == translate_alias(ret[1].val)
       IN  ret' = Append(ret, Returned("_translate_alias", r, r.s))
    /\ UNCHANGED <<txvars, gpvars, arg>>

\* plc._resolve_area(arg)
ResolveArea ==
    /\ ret = <<>>
    /\ LET r == resolve_area(arg)
       IN  ret' = <<Returned("_resolve_area", r, r.area)>>
    /\ UNCHANGED <<txvars, gpvars, arg>>

(***************************************************************************)
(* Specifications                                                          *)
(***************************************************************************)
InitCallers ==
    /\ lock = NoThread
    /\ pc = [t \in Threads |-> "idle"]
    /\ op = [t \in Threads |-> NoOp]
    /\ wmem = [t \in Threads |-> <<>>]
    /\ g = [t \in Threads |-> NoParams]
    /\ w = [t \in Threads |-> NoEncoded]
    /\ buf = [t \in Threads |-> <<>>]
    /\ wi = [t \in Threads |-> 0]
    /\ result = [t \in Threads |-> NoResult]
    /\ prev = [t \in Threads |-> NoPrev]
    /\ io = [t \in Threads |-> <<>>]
    /\ gp_pc = [t \in Threads |-> "idle"]
    /\ gp_new = [t \in Threads |-> 0]
    /\ gp_ret = [t \in Threads |-> 0]
    /\ ngetplc = 0

\* Neither function has been called on its own.
InitNoFn ==
    /\ arg = <<>>
    /\ ret = <<>>

\* One session exists, constructed by an earlier get_plc(); its connect()
\* succeeded or failed.
InitSession ==
    /\ plc_instance = 1
    /\ nconstructed = 1
    /\ env_ok = TRUE
    /\ \E outcome \in ConnectOutcomes :
         /\ session_up = [s \in 1..(MaxGetPlc + 1) |-> s = 1 /\ outcome = "connected"]
         /\ session_log = [s \in 1..(MaxGetPlc + 1) |->
                               IF s = 1 THEN <<ConnectEv(outcome)>> ELSE <<>>]

\* Concurrent callers of one session.
Init ==
    /\ device = ZeroMemory
    /\ ncalls = 0
    /\ ndisconnect = MaxDisconnect - 1
    /\ InitSession
    /\ InitCallers
    /\ InitNoFn

Step(t) ==
    \/ AcquireRead(t)
    \/ ReadAreaRaises(t)
    \/ ReadAreaByte(t)
    \/ ReadAreaReturns(t)
    \/ AcquireWrite(t)
    \/ WriteAreaRaises(t)
    \/ WriteAreaByte(t)
    \/ SettlingDelay(t)
    \/ ReleaseWrite(t)
    \/ Return(t)

Next ==
    \/ \E t \in Threads : (\E o \in ConcOps(t) : Call(t, o)) \/ Step(t)
    \/ Disconnect

Spec == Init /\ [][Next]_vars

\* The same callers under fair scheduling: a transport call that has been
\* issued returns or raises, the settling delay ends, and a caller waiting
\* for the lock gets it if the lock is free again and again.
Fairness ==
    \A t \in Threads :
        /\ WF_vars(ReadAreaRaises(t) \/ ReadAreaByte(t) \/ ReadAreaReturns(t)
                      \/ WriteAreaRaises(t) \/ WriteAreaByte(t)
                      \/ SettlingDelay(t) \/ ReleaseWrite(t))
        /\ SF_vars(AcquireRead(t) \/ AcquireWrite(t))

SpecLive == Init /\ [][Next]_vars /\ Fairness

\* A single caller of one session, over every address form.
InitSeq ==
    /\ device \in {ZeroMemory, PatternMemory}
    /\ ncalls = 0
    /\ ndisconnect = MaxDisconnect - 1
    /\ InitSession
    /\ InitCallers
    /\ InitNoFn

NextSeq ==
    \/ \E o \in SeqOps : Call(1, o)
    \/ Step(1)
    \/ Disconnect

SpecSeq == InitSeq /\ [][NextSeq]_vars

\* Concurrent first calls of get_plc(): no session exists yet.
InitPlc ==
    /\ device = ZeroMemory
    /\ plc_instance = 0
    /\ nconstructed = 0
    /\ env_ok \in BOOLEAN
    /\ session_up = [s \in 1..(MaxGetPlc + 1) |-> FALSE]
    /\ session_log = [s \in 1..(MaxGetPlc + 1) |-> <<>>]
    /\ ndisconnect = 0
    /\ ncalls = 0
    /\ InitCallers
    /\ InitNoFn

NextPlc ==
    \E t \in Threads :
        GetPlcCall(t) \/ Construct(t) \/ Connect(t) \/ Assign(t) \/ ReturnPlc(t)

SpecPlc == InitPlc /\ [][NextPlc]_vars

\* A single caller makes the last call the bound allows, on any address.
InitAddr ==
    /\ device = PatternMemory
    /\ ncalls = MaxCalls - 1
    /\ ndisconnect = MaxDisconnect - 1
    /\ InitSession
    /\ InitCallers
    /\ InitNoFn

\* The caller's one call: getMem or writeMem of any of the addresses.
CallAddr ==
    /\ pc[1] = "idle"
    /\ \E o \in AddrOps : Call(1, o)

NextAddr ==
    \/ CallAddr
    \/ Step(1)
    \/ Disconnect

SpecAddr == InitAddr /\ [][NextAddr]_vars

\* _translate_alias and _resolve_area on any string; no call of getMem or
\* writeMem is made.
InitFn ==
    /\ device = ZeroMemory
    /\ ncalls = MaxCalls
    /\ ndisconnect = MaxDisconnect - 1
    /\ InitSession
    /\ InitCallers
    /\ arg \in FnArgs
    /\ ret = <<>>

NextFn == TranslateAlias \/ TranslateAliasAgain \/ ResolveArea

SpecFn == InitFn /\ [][NextFn]_vars

\* Caller 1 makes a call with a lower-case address; when it has finished,
\* caller 2 makes the same call with the address in any mix of case.
InitCase ==
    /\ device = PatternMemory
    /\ ncalls = 0
    /\ ndisconnect = MaxDisconnect - 1
    /\ InitSession
    /\ InitCallers
    /\ InitNoFn

CallCase ==
    \/ /\ ncalls = 0
       /\ \E o \in CaseOps : Call(1, o)
    \/ /\ pc[1] = "done"
       /\ \E o \in RecasedOps(op[1]) : Call(2, o)

NextCase ==
    \/ CallCase
    \/ \E t \in {1, 2} : Step(t)
    \/ Disconnect

SpecCase == InitCase /\ [][NextCase]_vars

\* A single caller makes one call while disconnect() is called on the
\* session up to MaxDisconnect times.
InitLife ==
    /\ device = PatternMemory
    /\ ncalls = MaxCalls - 1
    /\ ndisconnect = 0
    /\ InitSession
    /\ InitCallers
    /\ InitNoFn

NextLife ==
    \/ \E o \in LifeOps : Call(1, o)
    \/ Step(1)
    \/ Disconnect

SpecLife == InitLife /\ [][NextLife]_vars
(***************************************************************************)
(* Properties                                                              *)
(***************************************************************************)
\* Caller t is inside read_area, inside write_area, or in the settling
\* delay that follows write_area.
InDeviceIO(t) == pc[t] \in {"g_read", "w_write", "w_sleep"}

\* Bit k of byte b.
BitOf(b, k) == (b \div Pow2(k)) % 2 = 1

\* The bytes the contract gives a value of each address form.
WidthOf(form) ==
    CASE form \in {"bit", "byte"} -> 1
      [] form = "word" -> 2
      [] form \in {"real", "dword"} -> 4

\* C1: whoever is inside a device read, a device write or the settling
\* delay holds the session lock, so at most one caller is there at a time.
C1_MutualExclusion ==
    /\ \A t \in Threads : InDeviceIO(t) => lock = t
    /\ \A t, u \in Threads : InDeviceIO(t) /\ InDeviceIO(u) => t = u

\* One caller is inside write_area while another waits for the lock.
C1_Witness ==
    \E t, u \in Threads :
        /\ t # u
        /\ pc[t] = "w_write" /\ wi[t] = 1
        /\ pc[u] \in {"g_acquire", "w_acquire"}

\* C2: while one writeMem is between its device read and its device write,
\* no other writeMem is inside a device read or a device write.
C2_NoInterleavedWrites ==
    \A t, u \in Threads :
        (/\ t # u
         /\ op[t].kind = "writeMem" /\ op[u].kind = "writeMem"
         /\ pc[t] = "w_acquire")
        => pc[u] \notin {"g_read", "w_write", "w_sleep"}

\* C3: once every call has returned, each bit a caller's writeMem wrote
\* (callers write different bits of the same byte) holds the written value.
C3_NoLostUpdate ==
    (\A t \in Threads : pc[t] = "idle") =>
        \A t \in Threads :
            prev[t].op.m.form = "bit" =>
                LET m == prev[t].op.m
                IN  BitOf(device[<<m.area, m.db, m.off>>], m.bit) = prev[t].op.value.b

\* A write_area that has stored some of its bytes and not yet all of them.
MidWrite(u) == pc[u] = "w_write" /\ wi[u] > 0 /\ wi[u] < Len(buf[u])

\* C4: the bytes a read_area has fetched are the device's present contents
\* of those addresses, and no write_area is part-way through its bytes:
\* the buffer getMem decodes is the memory as a write left it, never a mix.
C4_NoTornRead ==
    \A t \in Threads :
        pc[t] = "g_read" =>
            /\ \A i \in 1..Len(buf[t]) :
                   buf[t][i] = device[<<g[t].area, g[t].db_number, g[t].start + i - 1>>]
            /\ \A u \in Threads : ~MidWrite(u)

\* A getMem of DB1.DBW0 has fetched the first of its two bytes while a
\* writeMem of 258 to the same word, its buffer encoded, waits for the lock.
C4_Witness ==
    \E t, u \in Threads :
        /\ t # u
        /\ op[t] = GetOp(SharedWord) /\ pc[t] = "g_read" /\ Len(buf[t]) = 1
        /\ op[u] = WriteOp(SharedWord, PyInt(258)) /\ pc[u] = "w_acquire"
        /\ buf[u] = <<1, 2>>

\* C5: S7_200 is constructed at most once and every get_plc() returns the
\* same session.
C5_SingleSession ==
    /\ nconstructed <= 1
    /\ \A t, u \in Threads :
           gp_ret[t] # 0 /\ gp_ret[u] # 0 => gp_ret[t] = gp_ret[u]

\* C6: a step of a boolean writeMem to a bit address changes no byte of
\* the device but the addressed one, and no bit of that byte but the
\* addressed one.
C6_BitWriteIsolation ==
    [][(op[1].kind = "writeMem" /\ op[1].m.form = "bit") =>
         \A c \in Cells :
             device'[c] # device[c] =>
                 /\ c = <<op[1].m.area, op[1].m.db, op[1].m.off>>
                 /\ \A k \in (0..7) \ {op[1].m.bit} :
                        BitOf(device'[c], k) = BitOf(device[c], k)]_vars

\* writeMem("VX0.3", True) has stored 173 over the 165 of marker byte 0.
C6_Witness ==
    /\ op[1] = WriteOp(Entry(<<"V","X","0",".","3">>, "bit", "MK", 0, 0, 3),
                       PyBool(TRUE))
    /\ pc[1] = "w_sleep"
    /\ device[<<"MK", 0, 0>>] = 173

\* C7: write_area is called with the area, block and offset of the
\* read_area that writeMem issued first.
C7_WriteWhereRead ==
    \A t \in Threads :
        pc[t] \in {"w_write", "w_sleep"} =>
            /\ w[t].area = g[t].area
            /\ w[t].db_number = g[t].db_number
            /\ w[t].start = g[t].start

\* C8: the buffer given to write_area has the width of the address form,
\* which is the number of bytes read.
C8_BufferWidth ==
    \A t \in Threads :
        pc[t] \in {"w_write", "w_sleep"} =>
            /\ Len(buf[t]) = WidthOf(op[t].m.form)
            /\ Len(buf[t]) = g[t].length

\* C9: a getMem that follows the same caller's writeMem(address, v) on the
\* same address, and whose transport call succeeded, returns v.
C9_RoundTrip ==
    \A t \in Threads :
        (/\ pc[t] = "done"
         /\ op[t].kind = "getMem"
         /\ prev[t].op.kind = "writeMem"
         /\ prev[t].op.m = op[t].m
         /\ result[t].err # "TransportError")
        => result[t] = [err |-> "ok", val |-> prev[t].op.value]

\* C10: a getMem of a classified address whose read_area returned the
\* requested number of bytes returns a value.
C10_DecodeNeverFails ==
    \A t \in Threads :
        (/\ pc[t] = "done"
         /\ op[t].kind = "getMem"
         /\ g[t].err = "ok" /\ g[t].out_type # "None"
         /\ Len(buf[t]) = g[t].length)
        => result[t].err = "ok"

\* The leading letters of the address name no memory area: it starts with
\* none of DB, AI, AQ, I, Q, V, M, in either case.
NamesNoArea(addr) ==
    LET a == lower(addr) IN
    /\ ~startswith(a, <<"d","b">>)
    /\ ~startswith(a, <<"a","i">>)
    /\ ~startswith(a, <<"a","q">>)
    /\ Len(a) = 0 \/ a[1] \notin {"i", "q", "v", "m"}

\* C11: a getMem or writeMem of an address whose leading letters name no
\* memory area is over at once with ValueError: it has taken the lock at no
\* time and issued no read_area and no write_area.
C11_UnknownAddressRaises ==
    \A t \in Threads :
        (op[t].kind # "none" /\ NamesNoArea(op[t].m.addr)) =>
            /\ pc[t] = "done"
            /\ result[t].err = "ValueError"
            /\ io[t] = <<>>
            /\ lock # t

\* writeMem("unknown", 5) has raised ValueError.
C11_Witness ==
    /\ pc[1] = "done"
    /\ op[1] = WriteOp(RawEntry(<<"u","n","k","n","o","w","n">>), PyInt(5))
    /\ result[1].err = "ValueError"
    /\ io[1] = <<>>

\* A number as the address syntax writes it: one or more decimal digits.
IsNumber(x) == Len(x) > 0 /\ \A k \in 1..Len(x) : is_digit(x[k])

\* The address syntax of the interface, case-insensitively:
\* DB<n>.DBX<n>.<b>, DB<n>.DBB<n>, DB<n>.DBW<n>, DB<n>.DBD<n>, M<n>.<b>,
\* <I|Q|V|M>X<n>.<b>, <I|Q|V|M><B|W|D><n>, AIW<n>, AQW<n>.
AcceptedForm(addr) ==
    LET a     == lower(addr)
        parts == split(a, ".")
    IN  \/ /\ startswith(a, <<"d","b">>)
           /\ Len(parts) \in {2, 3}
           /\ IsNumber(from(parts[1], 2))
           /\ Len(parts[2]) > 3
           /\ IsNumber(from(parts[2], 3))
           /\ \/ Len(parts) = 3 /\ startswith(parts[2], <<"d","b","x">>)
                 /\ IsNumber(parts[3])
              \/ Len(parts) = 2 /\ parts[2][3] \in {"b", "w", "d"}
                 /\ startswith(parts[2], <<"d","b">>)
        \/ /\ startswith(a, <<"m">>)
           /\ Len(parts) = 2
           /\ IsNumber(from(parts[1], 1)) /\ IsNumber(parts[2])
        \/ /\ Len(a) > 2 /\ a[1] \in {"i", "q", "v", "m"}
           /\ \/ a[2] = "x" /\ Len(parts) = 2
                 /\ IsNumber(from(parts[1], 2)) /\ IsNumber(parts[2])
              \/ a[2] \in {"b", "w", "d"} /\ IsNumber(from(a, 2))
        \/ /\ startswith(a, <<"a","i","w">>) \/ startswith(a, <<"a","q","w">>)
           /\ IsNumber(from(a, 3))

\* A transport call of the log.
IsDeviceCall(ev) == ev[1] \in {"read_area", "write_area"}

DeviceCalls(t) == SelectSeq(io[t], IsDeviceCall)

\* C12: a getMem or writeMem of an address that has none of the accepted
\* forms issues no read_area and no write_area, and ends by raising.
C12_UnacceptedAddressRaises ==
    \A t \in Threads :
        (op[t].kind # "none" /\ ~AcceptedForm(op[t].m.addr)) =>
            /\ DeviceCalls(t) = <<>>
            /\ pc[t] = "done" => result[t].err # "ok"

\* C13: the settling delay runs with the lock held, right after write_area
\* has stored all its bytes, and no other caller is inside a device call
\* meanwhile; the lock is released straight after a write_area only when
\* that write_area raised, otherwise after the sleep.
C13_SettlingDelayUnderLock ==
    \A t \in Threads :
        /\ pc[t] = "w_sleep" =>
               /\ lock = t
               /\ wi[t] = Len(buf[t])
               /\ Len(io[t]) >= 2
               /\ io[t][Len(io[t])] = SleepEv
               /\ io[t][Len(io[t]) - 1][1] = "write_area"
               /\ \A u \in Threads \ {t} : ~InDeviceIO(u)
        /\ \A k \in 2..Len(io[t]) :
               (io[t][k] = ReleaseEv /\ io[t][k - 1][1] = "write_area")
               => (pc[t] = "done" /\ result[t].err = "TransportError")
        /\ \A k \in 1..Len(io[t]) :
               io[t][k] = SleepEv => k > 1 /\ io[t][k - 1][1] = "write_area"

\* A writeMem is in its settling delay while another caller waits for the
\* lock.
C13_Witness ==
    \E t, u \in Threads :
        /\ t # u
        /\ pc[t] = "w_sleep"
        /\ pc[u] \in {"g_acquire", "w_acquire"}

\* The transport call t is in raises: read_area on a dead session or an
\* unmapped range, or write_area likewise.
TransportFails(t) ==
    /\ ~connected \/ (IF pc[t] = "g_read"
                      THEN ~RangeOk(g[t].area, g[t].db_number, g[t].start,
                                    g[t].length)
                      ELSE ~RangeOk(w[t].area, w[t].db_number, w[t].start,
                                    Len(buf[t])))
    /\ \/ pc[t] = "g_read" /\ Len(buf[t]) = 0
       \/ pc[t] = "w_write" /\ wi[t] = 0

\* C14: a step in which read_area or write_area raises ends the call with
\* that transport error; the failing call was issued once (the log is
\* acquire, read_area, release, or that followed by acquire, write_area,
\* release, with nothing after the failure), and the step neither opens a
\* session nor constructs one.
C14_TransportFailurePropagates ==
    [][\A t \in Threads :
          (TransportFails(t) /\ io'[t] # io[t]) =>
              /\ pc'[t] = "done"
              /\ result'[t] = Raise("TransportError")
              /\ io'[t] =
                    IF pc[t] = "g_read"
                    THEN <<AcquireEv, ReadAreaEv(g[t]), ReleaseEv>>
                    ELSE <<AcquireEv, ReadAreaEv(g[t]), ReleaseEv,
                           AcquireEv, WriteAreaEv(w[t], buf[t]), ReleaseEv>>
              /\ session_up' = session_up
              /\ nconstructed' = nconstructed
              /\ plc_instance' = plc_instance
              /\ device' = device]_vars

\* A writeMem whose read succeeded and whose write_area raised.
C14_Witness ==
    \E t \in Threads :
        /\ pc[t] = "done"
        /\ op[t].kind = "writeMem"
        /\ result[t].err = "TransportError"
        /\ Len(io[t]) = 6
        /\ io[t][5][1] = "write_area"

\* The events of a successful getMem, and of a successful writeMem.
ReadProtocol(t) == <<AcquireEv, ReadAreaEv(g[t]), ReleaseEv>>

WriteProtocol(t) ==
    <<AcquireEv, ReadAreaEv(g[t]), ReleaseEv,
      AcquireEv, WriteAreaEv(w[t], buf[t]), SleepEv, ReleaseEv>>

\* C15: a getMem that returned did acquire, one read_area, release, and
\* nothing else; a writeMem that returned did acquire, one read_area,
\* release, acquire, one write_area, sleep, release; in every call,
\* finished or not, acquires and releases alternate starting with an
\* acquire, and the caller holds the lock exactly while its last lock event
\* is an acquire.
C15_TransactionProtocol ==
    \A t \in Threads :
        LET locks == SelectSeq(io[t], LAMBDA ev : ev \in {AcquireEv, ReleaseEv})
        IN
        /\ (pc[t] = "done" /\ result[t].err = "ok") =>
               io[t] = IF op[t].kind = "getMem" THEN ReadProtocol(t)
                                               ELSE WriteProtocol(t)
        /\ \A k \in 1..Len(locks) :
               locks[k] = IF k % 2 = 1 THEN AcquireEv ELSE ReleaseEv
        /\ Len(locks) <= (IF op[t].kind = "writeMem" THEN 4 ELSE 2)
        /\ lock = t <=> Len(locks) % 2 = 1

\* A writeMem has returned while the other caller is inside a call.
C15_Witness ==
    \E t, u \in Threads :
        /\ t # u
        /\ pc[t] = "done"
        /\ op[t].kind = "writeMem"
        /\ result[t].err = "ok"
        /\ Len(io[t]) = 7
        /\ pc[u] \notin {"idle", "done"}

\* C16: a finished getMem of an address of the table issued exactly one
\* read_area, for the area, block number, byte offset and length the table
\* gives for the address, and a bit address was resolved to the table's bit
\* offset.
C16_ReadRequestTable ==
    \A t \in Threads :
        (pc[t] = "done" /\ op[t].kind = "getMem"
                        /\ op[t].m.form \in {"bit", "byte", "word", "real"}) =>
            /\ DeviceCalls(t) = << <<"read_area", op[t].m.area, op[t].m.db,
                                     op[t].m.off, WidthOf(op[t].m.form)>> >>
            /\ op[t].m.form = "bit" => g[t].bit = op[t].m.bit

\* The marker-bit shorthand M<byte>.<bit>, in upper case.
IsMarkerShorthand(u) ==
    \E k \in 2..Len(u) :
        /\ u[1] = "M"
        /\ u[k] = "."
        /\ IsNumber(SubSeq(u, 2, k - 1))
        /\ IsNumber(SubSeq(u, k + 1, Len(u)))

\* The translation table: what each input is rewritten to.
AliasTable(s) ==
    LET u == upper(s) IN
    IF IsMarkerShorthand(u) THEN <<"V","X">> \o from(u, 1)
    ELSE IF startswith(u, <<"V","D">>)
    THEN <<"D","B","1",".","D","B","D">> \o from(u, 2)
    ELSE IF startswith(u, <<"V","W">>)
    THEN <<"D","B","1",".","D","B","W">> \o from(u, 2)
    ELSE u

\* C17: _translate_alias returns, for every input, what the translation
\* table gives: VX<byte>.<bit> for M<byte>.<bit>, DB1.DBD<offset> for
\* VD<offset>, DB1.DBW<offset> for VW<offset>, in either case, and the
\* upper-cased input otherwise.
C17_AliasTable ==
    (Len(ret) >= 1 /\ ret[1].fn = "_translate_alias") =>
        /\ ret[1].err = "ok"
        /\ ret[1].val = AliasTable(arg)

\* C18: whenever _translate_alias has returned a string and is applied to
\* that string, it returns, and returns the same string.
C18_TranslateIdempotent ==
    (Len(ret) = 2 /\ ret[2].fn = "_translate_alias") =>
        /\ ret[1].err = "ok"
        /\ ret[2].err = "ok"
        /\ ret[2].val = ret[1].val

\* The second translation of an alias that the first one rewrote.
C18_Witness ==
    /\ Len(ret) = 2
    /\ arg = <<"m","1","0",".","7">>
    /\ ret[1].val = <<"V","X","1","0",".","7">>
    /\ ret[2].val = <<"V","X","1","0",".","7">>

\* The first n characters of an address, in lower case.
Prefix(s, n) == IF Len(s) >= n THEN SubSeq(lower(s), 1, n) ELSE <<>>

\* The area each prefix names, or "" where the address names none.
AreaTable(s) ==
    IF Prefix(s, 2) = <<"d","b">> THEN "DB"
    ELSE IF Prefix(s, 2) = <<"a","i">> \/ Prefix(s, 1) = <<"i">> THEN "PE"
    ELSE IF Prefix(s, 2) = <<"a","q">> \/ Prefix(s, 1) = <<"q">> THEN "PA"
    ELSE IF Prefix(s, 1) \in { <<"v">>, <<"m">> } THEN "MK"
    ELSE ""

\* C19: _resolve_area returns DataBlock for an address starting with DB,
\* ProcessInput for AI, IW or another leading I, ProcessOutput for AQ, QW
\* or another leading Q, Marker for a leading V or M, in either case, and
\* raises ValueError for every other address.
C19_AreaByPrefix ==
    (Len(ret) >= 1 /\ ret[1].fn = "_resolve_area") =>
        IF AreaTable(arg) = ""
        THEN ret[1].err = "ValueError"
        ELSE ret[1].err = "ok" /\ ret[1].val = AreaTable(arg)

\* _resolve_area has resolved an upper-case analog output word.
C19_Witness ==
    /\ Len(ret) = 1
    /\ ret[1].fn = "_resolve_area"
    /\ arg = <<"A","Q","W">>
    /\ ret[1] = [err |-> "ok", fn |-> "_resolve_area", val |-> "PA"]

\* DB<n>.DBD<k> and VD<k>, in either case.
IsFloatAddress(addr) ==
    LET a == lower(addr)
        parts == split(a, ".")
    IN  \/ /\ Len(parts) = 2
           /\ startswith(parts[1], <<"d","b">>)
           /\ IsNumber(from(parts[1], 2))
           /\ startswith(parts[2], <<"d","b","d">>)
           /\ IsNumber(from(parts[2], 3))
        \/ startswith(a, <<"v","d">>) /\ IsNumber(from(a, 2))

\* MD<k>, ID<k> and QD<k>, in either case.
IsDwordAddress(addr) ==
    LET a == lower(addr)
    IN  /\ Len(a) >= 3
        /\ a[1] \in {"m", "i", "q"}
        /\ a[2] = "d"
        /\ IsNumber(from(a, 2))

\* The four big-endian bytes of a non-negative int below 2^31.
DwordBytes(n) ==
    <<n \div Pow2(24), (n \div 65536) % 256, (n \div 256) % 256, n % 256>>

\* C20: a DB<n>.DBD<k> or VD<k> address is resolved to four bytes of type
\* REAL, a getMem of it returns the float32 of the bytes read and a writeMem
\* of it stores the float32 of the value, be the value a bool, an int or a
\* float; an MD<k>, ID<k> or QD<k> address is resolved to four bytes of type
\* DWORD, a getMem returns their unsigned value and a writeMem stores the
\* unsigned 32-bit word of int(value), whatever the value's type.
C20_TypeFromAddress ==
    \A t \in Threads :
        LET a == op[t].m.addr
            real == IsFloatAddress(a)
        IN
        (op[t].kind # "none" /\ (real \/ IsDwordAddress(a))) =>
            /\ g[t].err = "ok"
            /\ g[t].length = 4
            /\ op[t].kind = "getMem" =>
                   g[t].out_type = IF real THEN "REAL" ELSE "DWORD"
            /\ (op[t].kind = "getMem" /\ pc[t] = "done"
                                      /\ result[t].err # "TransportError") =>
                   result[t] = IF real THEN get_real(buf[t])
                                       ELSE get_dword(buf[t])
            /\ (op[t].kind = "writeMem"
                  /\ \/ pc[t] \in {"w_acquire", "w_write", "w_sleep"}
                     \/ pc[t] = "done" /\ result[t].err # "TransportError") =>
                   buf[t] = IF real THEN real_bytes(to_float(op[t].value))
                                   ELSE DwordBytes(to_int(op[t].value).i)

\* writeMem("VD0", 5) has stored the bytes of the float 5.0.
C20_Witness ==
    /\ pc[1] = "done"
    /\ op[1] = WriteOp(RawEntry(<<"V","D","0">>), PyInt(5))
    /\ result[1].err = "ok"
    /\ buf[1] = <<64, 160, 0, 0>>
    /\ device[<<"DB", 1, 0>>] = 64
    /\ device[<<"DB", 1, 1>>] = 160

\* C21: every read_area and write_area a call has issued has a byte offset
\* of 0 or more, and a call that has issued one for a bit address resolved
\* the bit offset to one of 0..7.
C21_OffsetInvariant ==
    \A t \in Threads :
        \A k \in 1..Len(io[t]) :
            IsDeviceCall(io[t][k]) =>
                /\ io[t][k][4] >= 0
                /\ g[t].out_type = "BOOL" => g[t].bit \in 0..7

\* Caller 2 has finished the call caller 1 finished before, with an
\* address that differs at most in letter case.
SameCallRecased ==
    /\ pc[1] = "done"
    /\ pc[2] = "done"
    /\ op[2] \in RecasedOps(op[1])

\* C22: two finished calls of the same operation and value whose addresses
\* differ only in letter case have issued the same lock and device events,
\* hold the same buffer and have the same result or the same kind of error,
\* provided the session stayed up or neither call met a transport error.
C22_CaseInsensitive ==
    (/\ SameCallRecased
     /\ \/ connected
        \/ result[1].err # "TransportError" /\ result[2].err # "TransportError")
    => /\ io[2] = io[1]
       /\ buf[2] = buf[1]
       /\ result[2] = result[1]

\* writeMem("db1.dbw0", 5) and then writeMem("Db1.dBW0", 5) have returned.
C22_Witness ==
    /\ SameCallRecased
    /\ op[1] = WriteOp(RawEntry(<<"d","b","1",".","d","b","w","0">>), PyInt(5))
    /\ op[2].m.addr = <<"D","b","1",".","d","B","W","0">>
    /\ result[2].err = "ok"
    /\ Len(io[2]) = 7
    /\ buf[2] = <<0, 5>>

\* C23: a construction raises only when the connection parameters are
\* missing, never because of the connection; once __init__ is past its
\* try block the object exists, connect() has been called on its client
\* exactly once, whatever the outcome, and the object is what the caller
\* gets.
C23_ConstructionReturns ==
    \A t \in Threads :
        /\ gp_pc[t] = "raised" => ~env_ok /\ gp_new[t] = 0
        /\ (gp_pc[t] \in {"assign", "return", "returned"} /\ gp_new[t] # 0) =>
               /\ gp_new[t] \in 1..nconstructed
               /\ \E outcome \in ConnectOutcomes :
                     /\ session_log[gp_new[t]] = <<ConnectEv(outcome)>>
                     /\ session_up[gp_new[t]] <=> outcome = "connected"
        /\ gp_pc[t] = "returned" => gp_ret[t] \in 1..nconstructed

\* A caller has received a session whose connect() raised.
C23_Witness ==
    \E t \in Threads :
        /\ gp_pc[t] = "returned"
        /\ gp_ret[t] = gp_new[t]
        /\ session_log[gp_ret[t]] = <<ConnectEv("raised")>>
        /\ ~session_up[gp_ret[t]]

\* C24: a call whose address was resolved goes on to the lock and to
\* read_area whether the session is connected or not: it is finished only
\* with a read_area in its log, and when it ends with the transport error
\* its log ends with the read_area or write_area that raised and the
\* release of the lock.
C24_NoConnectionGate ==
    \A t \in Threads :
        (op[t].kind # "none" /\ g[t].err = "ok") =>
            /\ pc[t] = "done" =>
                   /\ Len(io[t]) >= 3
                   /\ io[t][1] = AcquireEv
                   /\ io[t][2] = ReadAreaEv(g[t])
            /\ (pc[t] = "done" /\ result[t].err = "TransportError") =>
                   /\ IsDeviceCall(io[t][Len(io[t]) - 1])
                   /\ io[t][Len(io[t])] = ReleaseEv

\* The second call on a session whose connect() raised has issued its
\* read_area and failed on it.
C24_Witness ==
    /\ session_log[1] = <<ConnectEv("raised")>>
    /\ ncalls = 2
    /\ pc[1] = "done"
    /\ op[1].kind = "writeMem"
    /\ result[1].err = "TransportError"
    /\ io[1] = <<AcquireEv, ReadAreaEv(g[1]), ReleaseEv>>

C26_RawReadPassthrough ==
    \A t \in Threads :
        (pc[t] = "done" /\ op[t].kind = "getMem" /\ op[t].returnByte
                        /\ result[t].err # "TransportError") =>
            /\ result[t] = [err |-> "ok", val |-> PyBytes(buf[t])]
            /\ Len(buf[t]) = WidthOf(op[t].m.form)
            /\ \A i \in 1..Len(buf[t]) :
                   buf[t][i] = device[<<op[t].m.area, op[t].m.db,
                                        op[t].m.off + i - 1>>]

\* The first phase of caller t's writeMem failed: the address did not
\* resolve, or read_area raised, or the encoding of the value raised.
FirstPhaseFailed(t) ==
    /\ op[t].kind = "writeMem"
    /\ \/ g[t].err # "ok"
       \/ g[t].err = "ok" /\ w[t].err = "none" /\ result[t].err = "TransportError"
       \/ w[t].err \notin {"ok", "none"}

\* C27: a writeMem whose first phase failed has raised, has issued no
\* write_area and stored no byte, and the device holds what it held before
\* the call.
C27_NoWriteAfterFailedRead ==
    \A t \in Threads :
        FirstPhaseFailed(t) =>
            /\ pc[t] = "done"
            /\ result[t].err \notin {"ok", "none"}
            /\ \A k \in 1..Len(io[t]) : io[t][k][1] # "write_area"
            /\ wi[t] = 0
            /\ device = PatternMemory

\* writeMem("VX0.1", 5) has read the byte and raised in set_bool.
C27_Witness ==
    /\ pc[1] = "done"
    /\ op[1] = WriteOp(RawEntry(<<"V","X","0",".","1">>), PyInt(5))
    /\ result[1].err = "TypeError"
    /\ io[1] = <<AcquireEv, ReadAreaEv(g[1]), ReleaseEv>>

\* C28: the lock is held only by a caller that is inside read_area,
\* write_area or the settling delay; when no caller is there the lock is
\* free, and a caller whose call has ended, with a value or an exception,
\* does not hold it.
C28_LockNeverLeaked ==
    /\ (\A t \in Threads : ~InDeviceIO(t)) => lock = NoThread
    /\ \A t \in Threads : lock = t => InDeviceIO(t)
    /\ \A t \in Threads : pc[t] \in {"idle", "done"} => lock # t

\* A caller's call has ended with a transport error and another caller
\* holds the lock inside its own read_area.
C28_Witness ==
    \E t, u \in Threads :
        /\ pc[t] = "done"
        /\ result[t].err = "TransportError"
        /\ io[t][Len(io[t])] = ReleaseEv
        /\ pc[u] = "g_read"
        /\ lock = u
        /\ ~connected

\* Caller t's writeMem is past its encoding: it is about to call
\* write_area, is in it, or has returned its result.
PastEncoding(t) ==
    /\ op[t].kind = "writeMem"
    /\ \/ pc[t] \in {"w_acquire", "w_write", "w_sleep"}
       \/ pc[t] = "done" /\ result[t].err = "ok"

\* C29: for an address getMem decodes (bit, word and real forms, the word
\* aliases included), the buffer a writeMem passes to write_area holds the
\* supplied value: decoded the way getMem decodes the address, it gives
\* that value.
C29_WriteEncodesValue ==
    \A t \in Threads :
        (PastEncoding(t) /\ op[t].m.form \in {"bit", "word", "real"}) =>
            getMem_decode(buf[t], FALSE, g[t].out_type, g[t].bit) =
                [err |-> "ok", val |-> op[t].value]

\* C30: under fair scheduling every getMem and writeMem that has started
\* comes to its end, with a value or an exception, whatever the other
\* callers do.
C30_Progress ==
    \A t \in Threads : (pc[t] \notin {"idle", "done"}) ~> (pc[t] = "done")

\* A writeMem waits for its second acquisition while another writeMem holds
\* the lock for its read.
C30_Witness ==
    \E t, u \in Threads :
        /\ t # u
        /\ pc[t] = "w_acquire"
        /\ op[u].kind = "writeMem"
        /\ pc[u] = "g_read"
        /\ lock = u
====
